---------------------------- MODULE Spec2Model ----------------------------
(***************************************************************************)
(* Model of src/kiwix_search.py: KiwixSearchHelper.search and its helpers. *)
(*                                                                         *)
(* A Python str is a sequence of one-character strings, so that length,    *)
(* slicing, stripping, splitting and substring tests are computed the way  *)
(* the code computes them.                                                 *)
(***************************************************************************)
EXTENDS Integers, Sequences, FiniteSets, TLC

(***************************************************************************)
(* Bounds of the model.                                                    *)
(***************************************************************************)
\* results_per_book ranges over 0..MaxResultsPerBook
MaxResultsPerBook == 2
\* texts given to text_post_process have at most MaxTextLen characters
MaxTextLen == 5

(***************************************************************************)
(* Python str primitives.                                                  *)
(***************************************************************************)
Min(a, b) == IF a < b THEN a ELSE b

\* the whitespace characters of the model's alphabet (str.strip, str.split)
IsSpace(c) == c \in {" ", "\n"}

IsDigit(c) == c \in {"0", "1", "2", "3", "4", "5", "6", "7", "8", "9"}

\* s[:k] for k >= 0
Take(s, k) == SubSeq(s, 1, Min(k, Len(s)))

\* s[k:] for k >= 0 (drops the first k characters)
Drop(s, k) == SubSeq(s, k + 1, Len(s))

\* s.startswith(p)
StartsWith(s, p) == Len(p) <= Len(s) /\ SubSeq(s, 1, Len(p)) = p

\* s.find(t) + 1: the least 1-based position where t occurs in s, 0 if none
FindFirst(s, t) ==
    LET hits == {i \in 1..(Len(s) - Len(t) + 1) : SubSeq(s, i, i + Len(t) - 1) = t}
    IN IF hits = {} THEN 0 ELSE CHOOSE i \in hits : \A j \in hits : i <= j

\* t in s
Contains(s, t) == FindFirst(s, t) # 0

\* s.split(sep) for a non-empty separator: "".split(",") is [""]
RECURSIVE SplitSeq(_, _)
SplitSeq(s, sep) ==
    LET i == FindFirst(s, sep)
    IN IF i = 0 THEN <<s>>
       ELSE <<SubSeq(s, 1, i - 1)>> \o SplitSeq(Drop(s, i + Len(sep) - 1), sep)

\* s.replace(old, new) for a non-empty old: non-overlapping, left to right, one pass
RECURSIVE Replace(_, _, _)
Replace(s, old, new) ==
    LET i == FindFirst(s, old)
    IN IF i = 0 THEN s
       ELSE SubSeq(s, 1, i - 1) \o new \o Replace(Drop(s, i + Len(old) - 1), old, new)

\* s.rstrip(chars): removes every trailing character that is in the set chars
RECURSIVE RStripChars(_, _)
RStripChars(s, chars) ==
    IF s # <<>> /\ s[Len(s)] \in chars
    THEN RStripChars(SubSeq(s, 1, Len(s) - 1), chars)
    ELSE s

\* s.lstrip()
RECURSIVE LStrip(_)
LStrip(s) == IF s # <<>> /\ IsSpace(s[1]) THEN LStrip(Tail(s)) ELSE s

\* s.strip()
Strip(s) == LStrip(RStripChars(s, {" ", "\n"}))

\* s.split(): the maximal runs of non-whitespace characters, in order
RECURSIVE SplitWS(_)
SplitWS(s) ==
    LET t == LStrip(s)
        ends == {i \in 1..Len(t) : IsSpace(t[i])}
        e == IF ends = {} THEN Len(t) + 1 ELSE CHOOSE i \in ends : \A j \in ends : i <= j
    IN IF t = <<>> THEN <<>>
       ELSE <<SubSeq(t, 1, e - 1)>> \o SplitWS(Drop(t, e - 1))

UpperChars == <<"A","B","C","D","E","F","G","H","I","J","K","L","M",
                "N","O","P","Q","R","S","T","U","V","W","X","Y","Z">>
LowerChars == <<"a","b","c","d","e","f","g","h","i","j","k","l","m",
                "n","o","p","q","r","s","t","u","v","w","x","y","z">>

\* the lower-case letter of each upper-case letter
LowerOf ==
    [c \in {UpperChars[i] : i \in 1..Len(UpperChars)} |->
        LowerChars[CHOOSE i \in 1..Len(UpperChars) : UpperChars[i] = c]]

LowerChar(c) == IF c \in DOMAIN LowerOf THEN LowerOf[c] ELSE c

\* s.lower()
RECURSIVE Lower(_)
Lower(s) == IF s = <<>> THEN <<>> ELSE <<LowerChar(Head(s))>> \o Lower(Tail(s))

\* the concatenation of a sequence of sequences
RECURSIVE Flatten(_)
Flatten(ss) == IF ss = <<>> THEN <<>> ELSE Head(ss) \o Flatten(Tail(ss))

(***************************************************************************)
(* KiwixSearchHelper: construction.                                        *)
(***************************************************************************)
\* self.kiwix_url = kiwix_url.rstrip("/")
StripUrl(url) == RStripChars(url, {"/"})

\* extract_host(url)
extract_host(url) ==
    IF Contains(url, <<":","/","/">>)
    THEN SplitSeq(SplitSeq(url, <<":","/","/">>)[2], <<"/">>)[1]
    ELSE SplitSeq(url, <<"/">>)[1]

\* self.https = self.kiwix_url.startswith("https://")
IsHttps(url) == StartsWith(StripUrl(url), <<"h","t","t","p","s",":","/","/">>)

(***************************************************************************)
(* KiwixSearchHelper.search: the book identifiers.                         *)
(***************************************************************************)
\* books.split(",")
SplitBooks(bs) == SplitSeq(bs, <<",">>)

\* book.strip().rstrip(".zim"): rstrip takes a set of characters
CleanBook(elem) == RStripChars(Strip(elem), {".", "z", "i", "m"})

(***************************************************************************)
(* KiwixSearchHelper.search: parsing the search-results page.  A row is    *)
(* one <li> element: has_a says whether it holds a link element, a_text    *)
(* and href are that element's text and href, has_cite and cite_text the   *)
(* first <cite> element.                                                   *)
(***************************************************************************)
\* .text.replace("\n", " ").strip()
NormalizeText(t) == Strip(Replace(t, <<"\n">>, <<" ">>))

IsReservedUserOnly(title) == StartsWith(title, <<"U","s","e","r",":">>)

\* title.startswith("User:") or title.startswith("Talk:")
IsReserved(title) ==
    \/ StartsWith(title, <<"U","s","e","r",":">>)
    \/ StartsWith(title, <<"T","a","l","k",":">>)

\* result.find("a") is None for a row without a link element: .text raises
ParseRaises(rows) == \E i \in 1..Len(rows) : ~rows[i].has_a

\* the loop over soup.find_all("li"): the rows kept, in page order
RECURSIVE ParseRows(_, _)
ParseRows(rows, book) ==
    IF rows = <<>> THEN <<>>
    ELSE LET r == Head(rows)
             title == NormalizeText(r.a_text)
         IN IF IsReserved(title)
            THEN ParseRows(Tail(rows), book)
            ELSE <<[title |-> title,
                    link |-> r.href,
                    snippet |-> IF r.has_cite THEN NormalizeText(r.cite_text) ELSE <<>>,
                    from_book |-> book]>> \o ParseRows(Tail(rows), book)

(***************************************************************************)
(* KiwixSearchHelper.search: the rerank.                                   *)
(***************************************************************************)
\* the number of terms of the sequence terms that occur in title
RECURSIVE MatchCount(_, _)
MatchCount(terms, title) ==
    IF terms = <<>> THEN 0
    ELSE (IF Contains(title, Head(terms)) THEN 1 ELSE 0) + MatchCount(Tail(terms), title)

\* the score of one result: +5 per query term in the title, - len(title) // 20
Score(q, t) ==
    5 * MatchCount(SplitWS(Lower(q)), Lower(t)) - (Len(Lower(t)) \div 20)

\* results = [(i, 0) for i in results], then the scoring loop
RECURSIVE Scored(_, _)
Scored(rs, q) ==
    IF rs = <<>> THEN <<>>
    ELSE <<[result |-> Head(rs), score |-> Score(q, Head(rs).title)]>>
         \o Scored(Tail(rs), q)

\* x placed after every element of the sorted sequence whose score is >= its own
InsertByScore(sorted, x) ==
    LET n == Cardinality({i \in 1..Len(sorted) : sorted[i].score >= x.score})
    IN SubSeq(sorted, 1, n) \o <<x>> \o SubSeq(sorted, n + 1, Len(sorted))

\* x placed before the elements of equal score: a sort that is not stable
InsertByScoreUnstable(sorted, x) ==
    LET n == Cardinality({i \in 1..Len(sorted) : sorted[i].score > x.score})
    IN SubSeq(sorted, 1, n) \o <<x>> \o SubSeq(sorted, n + 1, Len(sorted))

RECURSIVE SortUnstable(_)
SortUnstable(scored) ==
    IF scored = <<>> THEN <<>>
    ELSE InsertByScoreUnstable(SortUnstable(SubSeq(scored, 1, Len(scored) - 1)),
                               scored[Len(scored)])

\* results.sort(key=lambda x: x[1], reverse=True): stable, descending by score
RECURSIVE SortByScore(_)
SortByScore(scored) ==
    IF scored = <<>> THEN <<>>
    ELSE InsertByScore(SortByScore(SubSeq(scored, 1, Len(scored) - 1)),
                       scored[Len(scored)])

TopResultsOneMore(sorted, k) == Take(sorted, k + 1)

\* results[:results_per_book]
TopResults(sorted, k) == Take(sorted, k)

(***************************************************************************)
(* KiwixSearchHelper.text_post_process.                                    *)
(***************************************************************************)
CollapseOnce(text) == Replace(text, <<"\n","\n">>, <<"\n">>)

\* while "\n\n" in text: text = text.replace("\n\n", "\n")
RECURSIVE CollapseNewlines(_)
CollapseNewlines(text) ==
    IF Contains(text, <<"\n","\n">>)
    THEN CollapseNewlines(Replace(text, <<"\n","\n">>, <<"\n">>))
    ELSE text

\* the length of the match of \[\d+\] at the head of s, 0 if there is none
CitationAt(s) ==
    IF s = <<>> \/ s[1] # "["
    THEN 0
    ELSE LET nd == IF \E i \in 2..Len(s) : ~IsDigit(s[i])
                   THEN (CHOOSE i \in 2..Len(s) :
                            /\ ~IsDigit(s[i])
                            /\ \A j \in 2..(i - 1) : IsDigit(s[j])) - 2
                   ELSE Len(s) - 1
         IN IF nd >= 1 /\ nd + 2 <= Len(s) /\ s[nd + 2] = "]" THEN nd + 2 ELSE 0

\* re.sub(r"\[\d+\]", " ", text)
RECURSIVE StripCitations(_)
StripCitations(s) ==
    IF s = <<>> THEN <<>>
    ELSE LET m == CitationAt(s)
         IN IF m > 0 THEN <<" ">> \o StripCitations(Drop(s, m))
            ELSE <<s[1]>> \o StripCitations(Tail(s))

TextPostProcessNoCut(text, limit) == StripCitations(CollapseNewlines(text))

\* text_post_process(text, page_content_words_limit)
text_post_process(text, limit) ==
    Take(StripCitations(CollapseNewlines(text)), limit)

FailedContent ==
    <<"F","a","i","l","e","d"," ","t","o"," ","r","e","t","r","i","e","v","e"," ",
      "c","o","n","t","e","n","t">>

PageContentBlank(status_code, text, limit) ==
    IF status_code = 200 THEN text_post_process(text, limit) ELSE <<>>

\* the content of one entry, from the page response
PageContent(status_code, text, limit) ==
    IF status_code = 200 THEN text_post_process(text, limit) ELSE FailedContent

\* the link of one entry: scheme and host come from the base URL
PageUrl(is_https, host, link) ==
    (IF is_https THEN <<"h","t","t","p","s",":","/","/">>
                 ELSE <<"h","t","t","p",":","/","/">>) \o host \o link

(***************************************************************************)
(* KiwixSearchHelper.format_results and tokens_count.                      *)
(***************************************************************************)
FormatEntry(e) ==
    <<"T","i","t","l","e",":"," ">> \o e.title \o <<"\n">>
    \o <<"L","i","n","k",":"," ">> \o e.link \o <<"\n">>
    \o <<"C","o","n","t","e","n","t",":"," ">> \o e.content \o <<"\n">>
    \o <<"F","r","o","m"," ","B","o","o","k",":"," ">> \o e.from_book \o <<"\n">>
    \o <<"\n","\n","-","-","-","\n","\n">>

format_results(results) ==
    Flatten([i \in 1..Len(results) |-> FormatEntry(results[i])])

\* len(text.split()): the number of maximal runs of non-whitespace characters
tokens_count(text) ==
    Cardinality({i \in 1..Len(text) :
                    ~IsSpace(text[i]) /\ (i = 1 \/ IsSpace(text[i - 1]))})

(***************************************************************************)
(* The inputs of one search() call and the responses of the Kiwix server.  *)
(***************************************************************************)
KiwixUrls ==
    { <<"h","t","t","p",":","/","/","h">>,
      <<"h","t","t","p","s",":","/","/","h","/">> }

\* "Pip py", "pip pip"
Queries ==
    { <<"P","i","p"," ","p","y">>,
      <<"p","i","p"," ","p","i","p">> }

\* "", "a", "a, b.zim", "ami.zim", "mi"
BooksInputs ==
    { <<>>,
      <<"a">>,
      <<"a",","," ","b",".","z","i","m">>,
      <<"a","m","i",".","z","i","m">>,
      <<"m","i">> }

Limits == {0, 3, 40}

\* HTTP status codes other than 200
ErrorStatuses == {404, 500}

Row(a_text, href, has_cite) ==
    [has_a |-> TRUE, a_text |-> a_text, href |-> href,
     has_cite |-> has_cite, cite_text |-> <<"\n","c"," ">>]

RowNoLink ==
    [has_a |-> FALSE, a_text |-> <<>>, href |-> <<>>,
     has_cite |-> FALSE, cite_text |-> <<>>]

RowPm  == Row(<<"P","i","p"," ","(","p","a","c","k","a","g","e"," ",
                "m","a","n","a","g","e","r",")">>, <<"/","A","/","P","m">>, TRUE)
RowPy  == Row(<<"P","y">>, <<"/","A","/","P","y">>, FALSE)
RowPip == Row(<<"P","i","p">>, <<"/","A","/","P","i","p">>, TRUE)
RowUserPip == Row(<<"U","s","e","r",":","P","i","p">>, <<"/","A","/","U","P">>, TRUE)
RowTalkPip == Row(<<"\n","T","a","l","k",":","P","i","p"," ">>, <<"/","A","/","T","P">>, FALSE)
RowLowerUser == Row(<<"u","s","e","r",":","p","i","p">>, <<"/","A","/","u","p">>, TRUE)

\* the search-results pages the server may answer with
SearchPages ==
    { <<>>,
      <<RowPm, RowPy, RowPip>>,
      <<RowUserPip, RowTalkPip, RowLowerUser, RowPip>>,
      <<RowPip, RowNoLink>> }

\* the visible text of the content pages the server may answer with
PageTexts ==
    { <<"a","\n","\n","b","[","1","]","c">>,
      <<"o","k">> }

\* the responses to a page fetch: the body of a non-200 response is never read
PageResponses ==
    [status_code : {200}, text : PageTexts] \cup [status_code : {404}, text : {<<>>}]

(***************************************************************************)
(* State.                                                                  *)
(***************************************************************************)
VARIABLES
    kiwix_url,                  \* self.kiwix_url
    kiwix_host,                 \* self.kiwix_host
    https,                      \* self.https
    query,                      \* search(query, ...)
    books,                      \* search(..., books, ...)
    results_per_book,           \* search(..., results_per_book, ...)
    page_content_words_limit,   \* search(..., page_content_words_limit)
    pc,                         \* where search() stands
    bi,                         \* the index in books.split(",") of the current book
    book,                       \* the loop variable book, cleaned
    results,                    \* the current book's results, scored and sorted
    ri,                         \* the index in results[:results_per_book] of the next page
    final_results,              \* final_results
    formatted_results,          \* the value search() returns
    io,                         \* the status events emitted and the GETs issued, in order
    exch,                       \* per book processed: the server's answers to its fetches
    t_vals,                     \* a text, and what each operation applied to it returned
    t_ops,                      \* the operations applied to the text, in order
    t_limit                     \* the limit given to text_post_process

search_vars ==
    <<kiwix_url, kiwix_host, https, query, books, results_per_book,
      page_content_words_limit, pc, bi, book, results, ri, final_results,
      formatted_results, io, exch>>

text_vars == <<t_vals, t_ops, t_limit>>

vars == <<search_vars, text_vars>>

inputs == <<kiwix_url, kiwix_host, https, query, books, results_per_book,
            page_content_words_limit>>

(***************************************************************************)
(* The events given to self.event_emitter and the calls of requests.get.   *)
(***************************************************************************)
StatusEvent(status, description, done) ==
    [kind |-> "status", status |-> status, description |-> description, done |-> done]

\* raised: the call raised (a transport failure) instead of returning a response
Get(endpoint, url, status_code, raised) ==
    [kind |-> "get", endpoint |-> endpoint, url |-> url,
     status_code |-> status_code, raised |-> raised]

\* f"{self.kiwix_url}/search?books.name={book}&pattern={query}"
SearchUrl(b) == [base |-> kiwix_url, book |-> b, pattern |-> query]

BookList == SplitBooks(books)

Selected == TopResults(results, results_per_book)

(***************************************************************************)
(* search(): one action per step between two suspension points.            *)
(***************************************************************************)
SearchInit ==
    /\ \E u \in KiwixUrls :
          /\ kiwix_url = StripUrl(u)
          /\ kiwix_host = extract_host(u)
          /\ https = IsHttps(u)
    /\ query \in Queries
    /\ books \in BooksInputs
    /\ results_per_book \in 0..MaxResultsPerBook
    /\ page_content_words_limit \in Limits
    /\ pc = "loop"
    /\ bi = 1
    /\ book = <<>>
    /\ results = <<>>
    /\ ri = 1
    /\ final_results = <<>>
    /\ formatted_results = <<>>
    /\ io = <<>>
    /\ exch = <<>>

\* lines 34-47: the next book is cleaned and announced
BeginBook ==
    /\ pc = "loop"
    /\ bi <= Len(BookList)
    /\ book' = CleanBook(BookList[bi])
    /\ io' = Append(io, StatusEvent("in_progress",
                                    [query |-> query, book |-> book'], FALSE))
    /\ pc' = "search"
    /\ UNCHANGED <<inputs, bi, results, ri, final_results, formatted_results, exch>>
    /\ UNCHANGED text_vars

\* line 48: requests.get raises, and nothing catches it
SearchFetchRaises ==
    /\ pc = "search"
    /\ io' = Append(io, Get("search", SearchUrl(book), 0, TRUE))
    /\ exch' = Append(exch, [elem |-> BookList[bi], book |-> book, status_code |-> 0,
                             raised |-> TRUE, rows |-> <<>>,
                             first |-> Len(final_results), pages |-> <<>>])
    /\ pc' = "raised"
    /\ UNCHANGED <<inputs, bi, book, results, ri, final_results, formatted_results>>
    /\ UNCHANGED text_vars

SearchFetchFailedSilent ==
    /\ pc = "search"
    /\ \E code \in ErrorStatuses :
          /\ io' = io \o <<Get("search", SearchUrl(book), code, FALSE)>>
          /\ exch' = Append(exch, [elem |-> BookList[bi], book |-> book,
                                   status_code |-> code, raised |-> FALSE,
                                   rows |-> <<>>, first |-> Len(final_results),
                                   pages |-> <<>>])
    /\ bi' = bi + 1
    /\ pc' = "loop"
    /\ UNCHANGED <<inputs, book, results, ri, final_results, formatted_results>>
    /\ UNCHANGED text_vars

SearchFetchFailedBreak ==
    /\ pc = "search"
    /\ \E code \in ErrorStatuses :
          /\ io' = io \o <<Get("search", SearchUrl(book), code, FALSE),
                           StatusEvent("error",
                                       [book |-> book, status_code |-> code], FALSE)>>
          /\ exch' = Append(exch, [elem |-> BookList[bi], book |-> book,
                                   status_code |-> code, raised |-> FALSE,
                                   rows |-> <<>>, first |-> Len(final_results),
                                   pages |-> <<>>])
    /\ bi' = Len(BookList) + 1
    /\ pc' = "loop"
    /\ UNCHANGED <<inputs, book, results, ri, final_results, formatted_results>>
    /\ UNCHANGED text_vars

\* lines 48-60: the search fetch answers a status other than 200
SearchFetchFailed ==
    /\ pc = "search"
    /\ \E code \in ErrorStatuses :
          /\ io' = io \o <<Get("search", SearchUrl(book), code, FALSE),
                           StatusEvent("error",
                                       [book |-> book, status_code |-> code], FALSE)>>
          /\ exch' = Append(exch, [elem |-> BookList[bi], book |-> book,
                                   status_code |-> code, raised |-> FALSE,
                                   rows |-> <<>>, first |-> Len(final_results),
                                   pages |-> <<>>])
    /\ bi' = bi + 1
    /\ pc' = "loop"
    /\ UNCHANGED <<inputs, book, results, ri, final_results, formatted_results>>
    /\ UNCHANGED text_vars

\* lines 48-49, 61-93: the search fetch answers 200; the page is parsed and reranked
SearchFetchOk ==
    /\ pc = "search"
    /\ \E rows \in SearchPages :
          /\ io' = Append(io, Get("search", SearchUrl(book), 200, FALSE))
          /\ exch' = Append(exch, [elem |-> BookList[bi], book |-> book,
                                   status_code |-> 200, raised |-> FALSE,
                                   rows |-> rows, first |-> Len(final_results),
                                   pages |-> <<>>])
          /\ IF ParseRaises(rows)
             THEN /\ pc' = "raised"
                  /\ UNCHANGED <<bi, results, ri>>
             ELSE LET sorted == SortByScore(Scored(ParseRows(rows, book), query))
                  IN /\ results' = sorted
                     /\ ri' = 1
                     /\ IF TopResults(sorted, results_per_book) = <<>>
                        THEN pc' = "loop" /\ bi' = bi + 1
                        ELSE pc' = "pages" /\ bi' = bi
    /\ UNCHANGED <<inputs, book, final_results, formatted_results>>
    /\ UNCHANGED text_vars

\* lines 105-112: requests.get of a page raises, and nothing catches it
PageFetchRaises ==
    /\ pc = "pages"
    /\ io' = Append(io, Get("page", PageUrl(https, kiwix_host, Selected[ri].result.link),
                            0, TRUE))
    /\ exch' = [exch EXCEPT ![Len(exch)].pages =
                   Append(@, [status_code |-> 0, raised |-> TRUE, text |-> <<>>])]
    /\ pc' = "raised"
    /\ UNCHANGED <<inputs, bi, book, results, ri, final_results, formatted_results>>
    /\ UNCHANGED text_vars

\* lines 99-130: the page of the next selected result is fetched, an entry appended
PageFetch ==
    /\ pc = "pages"
    /\ \E resp \in PageResponses :
          LET r == Selected[ri].result
              url == PageUrl(https, kiwix_host, r.link)
          IN /\ io' = Append(io, Get("page", url, resp.status_code, FALSE))
             /\ exch' = [exch EXCEPT ![Len(exch)].pages =
                            Append(@, [status_code |-> resp.status_code,
                                       raised |-> FALSE, text |-> resp.text])]
             /\ final_results' =
                   Append(final_results,
                          [title |-> r.title,
                           link |-> url,
                           content |-> PageContent(resp.status_code, resp.text,
                                                   page_content_words_limit),
                           from_book |-> book])
    /\ IF ri = Len(Selected)
       THEN pc' = "loop" /\ bi' = bi + 1 /\ ri' = ri
       ELSE pc' = "pages" /\ bi' = bi /\ ri' = ri + 1
    /\ UNCHANGED <<inputs, book, results, formatted_results>>
    /\ UNCHANGED text_vars

\* lines 131-142: the report is formatted, the completion announced, the report returned
Complete ==
    /\ pc = "loop"
    /\ bi > Len(BookList)
    /\ formatted_results' = format_results(final_results)
    /\ io' = Append(io, StatusEvent("completed",
                                    [books |-> Len(SplitBooks(books)),
                                     results |-> Len(final_results),
                                     tokens |-> tokens_count(formatted_results')],
                                    TRUE))
    /\ pc' = "done"
    /\ UNCHANGED <<inputs, bi, book, results, ri, final_results, exch>>
    /\ UNCHANGED text_vars

TextIdle == t_vals = <<>> /\ t_ops = <<>> /\ t_limit = 0

Init == SearchInit /\ TextIdle

Next ==
    \/ BeginBook
    \/ SearchFetchRaises
    \/ SearchFetchFailed
    \/ SearchFetchOk
    \/ PageFetchRaises
    \/ PageFetch
    \/ Complete

Spec == Init /\ [][Next]_vars

(***************************************************************************)
(* text_post_process on its own: every text of at most MaxTextLen          *)
(* characters over TextAlphabet, every limit up to one more than that, and *)
(* up to two applications of the collapse step or of the whole function.   *)
(***************************************************************************)
TextAlphabet == {"\n", "[", "1", "]", "a"}

Texts == UNION {[1..n -> TextAlphabet] : n \in 0..MaxTextLen}

SearchIdle ==
    /\ kiwix_url = <<>> /\ kiwix_host = <<>> /\ https = FALSE
    /\ query = <<>> /\ books = <<>>
    /\ results_per_book = 0 /\ page_content_words_limit = 0
    /\ pc = "idle" /\ bi = 1 /\ book = <<>> /\ results = <<>> /\ ri = 1
    /\ final_results = <<>> /\ formatted_results = <<>>
    /\ io = <<>> /\ exch = <<>>

TextInit ==
    /\ SearchIdle
    /\ \E t \in Texts : t_vals = <<t>>
    /\ t_ops = <<>>
    /\ t_limit \in 0..(MaxTextLen + 1)

\* lines 145-146 applied to the text at hand
ApplyCollapse ==
    /\ Len(t_ops) < 2
    /\ t_vals' = Append(t_vals, CollapseNewlines(t_vals[Len(t_vals)]))
    /\ t_ops' = Append(t_ops, "collapse")
    /\ UNCHANGED <<t_limit, search_vars>>

\* text_post_process applied to the text at hand
ApplyPostProcess ==
    /\ Len(t_ops) < 2
    /\ t_vals' = Append(t_vals, text_post_process(t_vals[Len(t_vals)], t_limit))
    /\ t_ops' = Append(t_ops, "post_process")
    /\ UNCHANGED <<t_limit, search_vars>>

TextNext == ApplyCollapse \/ ApplyPostProcess

SpecText == TextInit /\ [][TextNext]_vars

(***************************************************************************)
(* Vocabulary of the properties.                                           *)
(***************************************************************************)
IsStatus(e, status) == e.kind = "status" /\ e.status = status

IsGet(e, endpoint) == e.kind = "get" /\ e.endpoint = endpoint

IsInProgress(e) == IsStatus(e, "in_progress")

IsError(e) == IsStatus(e, "error")

IsSearchGet(e) == IsGet(e, "search")

\* a title that starts with "User:" or "Talk:"
ReservedTitle(title) ==
    Take(title, 5) \in { <<"U","s","e","r",":">>, <<"T","a","l","k",":">> }

\* the whitespace-normalized titles of the rows of a page that are not reserved
CandidateTitles(rows) ==
    LET keep(r) == ~ReservedTitle(NormalizeText(r.a_text))
        kept == SelectSeq(rows, keep)
    IN [k \in 1..Len(kept) |-> NormalizeText(kept[k].a_text)]

\* the number of entries of final_results that the i-th book processed contributed
Contribution(i) ==
    (IF i < Len(exch) THEN exch[i + 1].first ELSE Len(final_results)) - exch[i].first

\* the i-th book processed is no longer the one being processed
Finished(i) == i < Len(exch) \/ pc \in {"loop", "done"}

\* the search fetch of the i-th book processed answered, with a status other than 200
SearchFailed(i) == ~exch[i].raised /\ exch[i].status_code # 200

\* C1: every book processed contributes at most results_per_book entries, none
\* when its search fetch answered a status other than 200, and, once a book whose
\* search fetch answered 200 is done with, exactly min(results_per_book, number of
\* candidates that are not reserved).
C1_EntriesPerBook ==
    \A i \in 1..Len(exch) :
        /\ Contribution(i) <= results_per_book
        /\ exch[i].status_code # 200 => Contribution(i) = 0
        /\ (exch[i].status_code = 200 /\ Finished(i))
              => Contribution(i) = Min(results_per_book, Len(CandidateTitles(exch[i].rows)))

\* a finished call in which a book had more candidates than results_per_book >= 1
C1_Witness ==
    /\ pc = "done"
    /\ results_per_book >= 1
    /\ \E i \in 1..Len(exch) :
          /\ exch[i].status_code = 200
          /\ Len(CandidateTitles(exch[i].rows)) > results_per_book
          /\ Contribution(i) = results_per_book

\* C2: the in_progress events name the books in input order; every search GET comes
\* right after its book's in_progress event; an error event follows a search GET
\* exactly when that GET answered a status other than 200, and names that status;
\* a completed event (done = TRUE) is the last thing that happens, exactly when
\* search() returns; a call that raised has emitted no completed event.
C2_EventOrder ==
    LET n == Len(io)
        starts == SelectSeq(io, IsInProgress)
    IN /\ Len(starts) <= Len(BookList)
       /\ \A i \in 1..Len(starts) :
             /\ starts[i].description.book = CleanBook(BookList[i])
             /\ ~starts[i].done
       /\ \A j \in 1..n :
             /\ IsSearchGet(io[j]) =>
                   /\ j > 1
                   /\ IsInProgress(io[j - 1])
                   /\ io[j - 1].description.book = io[j].url.book
             /\ IsInProgress(io[j]) =>
                   IF j = n THEN pc = "search" ELSE IsSearchGet(io[j + 1])
             /\ (IsSearchGet(io[j]) /\ ~io[j].raised) =>
                   ((io[j].status_code # 200) <=> (j < n /\ IsError(io[j + 1])))
             /\ IsError(io[j]) =>
                   /\ j > 1
                   /\ IsSearchGet(io[j - 1])
                   /\ ~io[j - 1].raised
                   /\ io[j - 1].status_code # 200
                   /\ io[j].description.status_code = io[j - 1].status_code
                   /\ io[j].description.book = io[j - 1].url.book
                   /\ ~io[j].done
             /\ IsStatus(io[j], "completed") => (j = n /\ io[j].done /\ pc = "done")
       /\ pc = "done" =>
             /\ n >= 1
             /\ IsStatus(io[n], "completed")
             /\ Len(starts) = Len(BookList)
       /\ pc = "raised" => \A j \in 1..n : ~IsStatus(io[j], "completed")

\* a finished call of two books with a failed search fetch and a page fetch
C2_Witness ==
    /\ pc = "done"
    /\ Len(BookList) >= 2
    /\ \E j \in 1..Len(io) : IsError(io[j])
    /\ \E j \in 1..Len(io) : IsGet(io[j], "page")

\* the entries a book yields, from the server's answers to its own fetches alone
ExpectedEntries(rec) ==
    IF rec.status_code # 200 \/ ParseRaises(rec.rows)
    THEN <<>>
    ELSE LET top == TopResults(SortByScore(Scored(ParseRows(rec.rows, rec.book), query)),
                               results_per_book)
             answered == SelectSeq(rec.pages, LAMBDA p : ~p.raised)
         IN [k \in 1..Min(Len(answered), Len(top)) |->
                [title |-> top[k].result.title,
                 link |-> PageUrl(https, kiwix_host, top[k].result.link),
                 content |-> PageContent(answered[k].status_code, answered[k].text,
                                         page_content_words_limit),
                 from_book |-> rec.book]]

\* C3: a book whose search fetch answers a status other than 200 raises nothing,
\* contributes no entry, has no page fetched, gets an error event naming the
\* status, and the loop goes on to the next book; the final results are the
\* concatenation of what each book yields from its own fetches alone.
C3_FailedSearchSkipsBook ==
    /\ \A i \in 1..Len(exch) :
          /\ exch[i].elem = BookList[i]
          /\ SearchFailed(i) =>
                /\ Contribution(i) = 0
                /\ exch[i].pages = <<>>
                /\ \E j \in 1..Len(io) :
                      /\ IsError(io[j])
                      /\ io[j].description =
                            [book |-> exch[i].book, status_code |-> exch[i].status_code]
                      /\ j = Len(io) \/ io[j + 1].kind = "status"
                /\ i = Len(exch) => (pc \in {"loop", "search", "done"} /\ bi = i + 1)
    /\ pc = "done" => Len(exch) = Len(BookList)
    /\ final_results = Flatten([i \in 1..Len(exch) |-> ExpectedEntries(exch[i])])

\* a finished call in which a book after a failed one contributed entries
C3_Witness ==
    /\ pc = "done"
    /\ \E i \in 1..(Len(exch) - 1) : SearchFailed(i) /\ Contribution(i + 1) > 0

\* the titles of the results selected for a book, from its search-results page
SelectedTitles(rec) ==
    LET top == TopResults(SortByScore(Scored(ParseRows(rec.rows, rec.book), query)),
                          results_per_book)
    IN [k \in 1..Len(top) |-> top[k].result.title]

\* C4: a page fetch that answers a status other than 200 still appends an entry
\* for its candidate, with content "Failed to retrieve content"; nothing is
\* raised, no error event is emitted for it, and the remaining candidates of the
\* book and the later books are processed.
C4_FailedPageKeepsEntry ==
    /\ \A i \in 1..Len(exch) :
          /\ LET titles == SelectedTitles(exch[i])
             IN \A k \in 1..Len(exch[i].pages) :
                   LET p == exch[i].pages[k]
                   IN (~p.raised /\ p.status_code # 200) =>
                         /\ exch[i].first + k <= Len(final_results)
                         /\ final_results[exch[i].first + k].content = FailedContent
                         /\ k <= Len(titles)
                         /\ final_results[exch[i].first + k].title = titles[k]
                         /\ (i = Len(exch) /\ k = Len(exch[i].pages)) => pc # "raised"
          /\ (exch[i].status_code = 200 /\ Finished(i)) =>
                Len(exch[i].pages) = Min(results_per_book, Len(CandidateTitles(exch[i].rows)))
    /\ Len(SelectSeq(io, IsError))
          = Cardinality({i \in 1..Len(exch) : SearchFailed(i)})
    /\ pc = "done" => Len(exch) = Len(BookList)

\* a finished call with a failed page fetch followed by another page fetch of the
\* same book and by another book
C4_Witness ==
    /\ pc = "done"
    /\ \E i \in 1..(Len(exch) - 1) :
          \E k \in 1..(Len(exch[i].pages) - 1) : exch[i].pages[k].status_code # 200

\* C5: with books = "" no search GET is issued, the report is empty and the
\* completed event reports 0 books.
C5_EmptyBooksNoFetch ==
    books = <<>> =>
        /\ \A j \in 1..Len(io) : ~IsSearchGet(io[j])
        /\ pc = "done" =>
              /\ formatted_results = <<>>
              /\ io[Len(io)].description.books = 0

\* an element of books, stripped of surrounding whitespace and of one trailing ".zim"
TrimmedIdentifier(elem) ==
    LET t == Strip(elem)
    IN IF Len(t) >= 4 /\ SubSeq(t, Len(t) - 3, Len(t)) = <<".","z","i","m">>
       THEN SubSeq(t, 1, Len(t) - 4)
       ELSE t

\* C6: the identifier in the search URL, in the status descriptions and in the
\* From Book field is the element of books with surrounding whitespace and one
\* trailing ".zim" removed, and nothing else removed.
C6_BookIdentifier ==
    LET starts == SelectSeq(io, IsInProgress)
        gets == SelectSeq(io, IsSearchGet)
    IN /\ \A i \in 1..Len(starts) :
             starts[i].description.book = TrimmedIdentifier(BookList[i])
       /\ \A i \in 1..Len(gets) : gets[i].url.book = TrimmedIdentifier(BookList[i])
       /\ \A i \in 1..Len(exch) :
             \A k \in 1..Contribution(i) :
                final_results[exch[i].first + k].from_book = TrimmedIdentifier(BookList[i])

\* C7 as stated: the content of every entry is at most page_content_words_limit
\* characters long, whatever the page fetch answered.
C7_ContentWithinLimit ==
    \A n \in 1..Len(final_results) :
        Len(final_results[n].content) <= page_content_words_limit

\* C7, amended: the content of every entry whose page fetch answered 200 is at
\* most page_content_words_limit characters long; the content of an entry whose
\* page fetch answered another status is the 26 characters of "Failed to retrieve
\* content", whatever the limit.
C7_FetchedContentWithinLimit ==
    \A i \in 1..Len(exch) :
        \A k \in 1..Contribution(i) :
            LET p == exch[i].pages[k]
                content == final_results[exch[i].first + k].content
            IN IF p.status_code = 200
               THEN Len(content) <= page_content_words_limit
               ELSE content = FailedContent /\ Len(content) = 26

\* an entry whose page answered 200 with more text than the limit, cut at the limit
C7_Witness ==
    \E i \in 1..Len(exch) :
        \E k \in 1..Contribution(i) :
            /\ exch[i].pages[k].status_code = 200
            /\ page_content_words_limit >= 1
            /\ Len(StripCitations(CollapseNewlines(exch[i].pages[k].text)))
                  > page_content_words_limit
            /\ Len(final_results[exch[i].first + k].content) = page_content_words_limit

\* C8: a row whose normalized title starts with "User:" or "Talk:" is never among
\* the scored and sorted results, no page is fetched for its link and no entry
\* carries its title.
C8_ReservedExcluded ==
    /\ \A n \in 1..Len(final_results) : ~ReservedTitle(final_results[n].title)
    /\ \A n \in 1..Len(results) : ~ReservedTitle(results[n].result.title)
    /\ \A i \in 1..Len(exch) :
          \A r \in 1..Len(exch[i].rows) :
             LET row == exch[i].rows[r]
             IN (row.has_a /\ ReservedTitle(NormalizeText(row.a_text))) =>
                   \A j \in 1..Len(io) :
                      IsGet(io[j], "page") =>
                         io[j].url # PageUrl(https, kiwix_host, row.href)

\* a finished call in which every candidate of a page with reserved rows, given
\* with whitespace around the title, was fetched
C8_Witness ==
    /\ pc = "done"
    /\ \E i \in 1..Len(exch) :
          /\ exch[i].status_code = 200
          /\ \E r \in 1..Len(exch[i].rows) :
                /\ ReservedTitle(NormalizeText(exch[i].rows[r].a_text))
                /\ ~ReservedTitle(exch[i].rows[r].a_text)
          /\ Contribution(i) = Len(CandidateTitles(exch[i].rows))
          /\ Contribution(i) >= 2

\* score(query, title) as C9 states it
StatedScore(q, title) ==
    LET tokens == SplitWS(Lower(q))
    IN 5 * Cardinality({n \in 1..Len(tokens) : Contains(Lower(title), tokens[n])})
       - (Len(title) \div 20)

\* the stated score of each title of a sequence of titles
RECURSIVE StatedScores(_, _)
StatedScores(q, titles) ==
    IF titles = <<>> THEN <<>>
    ELSE <<StatedScore(q, Head(titles))>> \o StatedScores(q, Tail(titles))

\* the tokens that C9 adds to the query
AddedTokens == { <<"p","i","p">>, <<"P","Y">>, <<"x">>, <<"m","a","n">> }

\* C9: the entries come book by book in the order of books; the entries of a book
\* are in descending order of score, entries of equal score in page order, and no
\* candidate left out would sort before the last entry; the report is the entries
\* formatted in that order; a token added to the query raises the score of a
\* title it occurs in by exactly 5 and leaves the others alone.
C9_RerankOrder ==
    /\ \A i \in 1..Len(exch) :
          /\ exch[i].elem = BookList[i]
          /\ exch[i].first <= Len(final_results)
          /\ i > 1 => exch[i - 1].first <= exch[i].first
          /\ LET cands == CandidateTitles(exch[i].rows)
                 scores == StatedScores(query, cands)
                 m == Contribution(i)
                 title(k) == final_results[exch[i].first + k].title
                 pos(t) == CHOOSE c \in 1..Len(cands) : cands[c] = t
                 before(a, b) ==
                    \/ scores[a] > scores[b]
                    \/ scores[a] = scores[b] /\ a < b
             IN /\ Len(scores) = Len(cands)
                /\ \A k \in 1..m :
                      /\ \E c \in 1..Len(cands) : cands[c] = title(k)
                      /\ final_results[exch[i].first + k].from_book = exch[i].book
                /\ \A k \in 1..(m - 1) : before(pos(title(k)), pos(title(k + 1)))
                /\ (Finished(i) /\ m >= 1) =>
                      \A c \in 1..Len(cands) :
                         (\A k \in 1..m : title(k) # cands[c]) => before(pos(title(m)), c)
    /\ pc = "done" =>
          formatted_results = Flatten([n \in 1..Len(final_results) |->
                                          FormatEntry(final_results[n])])
    /\ (pc = "pages" /\ ri = 1) =>
       \A n \in 1..Len(results) :
          \A tok \in AddedTokens :
             Score(query \o <<" ">> \o tok, results[n].result.title)
                = results[n].score
                  + (IF Contains(Lower(results[n].result.title), Lower(tok)) THEN 5 ELSE 0)

\* a finished call in which a book's two entries have equal score and the first
\* was not the first candidate of the page
C9_Witness ==
    /\ pc = "done"
    /\ \E i \in 1..Len(exch) :
          /\ Contribution(i) >= 2
          /\ LET cands == CandidateTitles(exch[i].rows)
                 t1 == final_results[exch[i].first + 1].title
                 t2 == final_results[exch[i].first + 2].title
             IN /\ StatedScore(query, t1) = StatedScore(query, t2)
                /\ cands[1] # t1
                /\ Len(cands[1]) >= 20

\* t has two consecutive newline characters
HasDoubleNewline(t) == \E n \in 1..(Len(t) - 1) : t[n] = "\n" /\ t[n + 1] = "\n"

\* t has a substring "[" digits "]" with at least one digit
HasCitation(t) ==
    \E a \in 1..Len(t) :
        \E b \in (a + 2)..Len(t) :
            /\ t[a] = "["
            /\ t[b] = "]"
            /\ \A n \in (a + 1)..(b - 1) : IsDigit(t[n])

\* C10: what text_post_process returns has no two consecutive newlines and no
\* "[" digits "]"; collapsing the newlines of a collapsed text changes nothing,
\* and neither does text_post_process applied, with the same limit, to its result.
C10_PostProcessClean ==
    \A n \in 1..Len(t_ops) :
        /\ t_ops[n] = "post_process" =>
              /\ ~HasDoubleNewline(t_vals[n + 1])
              /\ ~HasCitation(t_vals[n + 1])
        /\ t_ops[n] = "collapse" => ~HasDoubleNewline(t_vals[n + 1])
        /\ (n >= 2 /\ t_ops[n] = t_ops[n - 1]) => t_vals[n + 1] = t_vals[n]

\* text_post_process applied twice to a text with two newlines in a row and a
\* citation marker, and cut at the limit
C10_Witness ==
    /\ t_ops = <<"post_process", "post_process">>
    /\ HasCitation(t_vals[1])
    /\ HasDoubleNewline(t_vals[1])
    /\ t_limit >= 1
    /\ Len(t_vals[2]) = t_limit
    /\ Len(StripCitations(CollapseNewlines(t_vals[1]))) > t_limit

=============================================================================
